---- MODULE Spec2Model ----
(***************************************************************************)
(* A model of package meme (src/main.go): the Generator with its font      *)
(* cache guarded by a sync.RWMutex, the operations Generate, LoadFontFile, *)
(* PreloadFont and ClearFontCache, the layout arithmetic of Generate and   *)
(* the render passes of drawCenteredText.                                  *)
(*                                                                         *)
(* Every operation is a sequence of steps of a goroutine p; a step is one  *)
(* access to shared state (the configuration, the cache, the lock, the     *)
(* file system) together with the local computation around it.  Spec runs  *)
(* one call at a time, SpecConc interleaves the steps of several           *)
(* goroutines, SpecLayout runs Generate over a wide range of layout        *)
(* inputs.                                                                 *)
(*                                                                         *)
(* float64 font sizes are kept exactly, as integers in units of 1/FontUnit *)
(* point: every size the model uses is a multiple of 1/50, and for those   *)
(* the float64 products that Generate truncates are either exact or        *)
(* further than 1/100 from an integer, so truncation of the exact value    *)
(* is the truncation the code computes.                                    *)
(***************************************************************************)
EXTENDS Integers, Sequences, FiniteSets

(***************************************************************************)
(* Bounds of the model.                                                    *)
(***************************************************************************)
\* Generate calls counted for one font path between two ClearFontCache calls
\* (caps the history counters).
MaxCalls == 3
\* Largest Config.TextOutlineWidth drawn in SpecLayout.
MaxOutlineWidth == 2

Procs == {"g1", "g2"}
SeqProcs == {"g1"}
None == "nobody"

Paths == {"a.ttf", "b.ttf"}
NoPath == ""

(***************************************************************************)
(* Program constants.  FontUnit is the denominator in which float64 font   *)
(* sizes are kept.                                                         *)
(***************************************************************************)
FontUnit == 50
BaseSize == 48
BaseWidth == 800
MaxFontFileSize == 10 * 1024 * 1024
MinFontFileLen == 4
DefaultPadding == 80
DefaultBorder == 10

(***************************************************************************)
(* Byte payloads.  A []byte is its length and, when the bytes are a        *)
(* well-formed font, the typeface they encode.                             *)
(***************************************************************************)
NoFont == "none"
Bytes(n, face) == [len |-> n, face |-> face]
EmptyBytes == Bytes(0, NoFont)
TinyBytes == Bytes(3, NoFont)
JunkBytes == Bytes(64, NoFont)
FontA == Bytes(4096, "A")
FontB == Bytes(8192, "B")
FontR == Bytes(2048, "R")
LimitFont == Bytes(MaxFontFileSize, "L")
HugeFont == Bytes(MaxFontFileSize + 1, "H")
GoBoldTTF == Bytes(140000, "gobold")

\* opentype.Parse: the parsed font of well-formed bytes, an error otherwise.
Parse(b) ==
    IF b.face # NoFont
    THEN [ok |-> TRUE, font |-> [typeface |-> b.face]]
    ELSE [ok |-> FALSE, font |-> [typeface |-> NoFont]]

(***************************************************************************)
(* The file system: what os.Stat and os.ReadFile answer for a path.        *)
(***************************************************************************)
File(stat, readable, data) == [stat |-> stat, readable |-> readable, data |-> data]
Missing == File("notexist", FALSE, EmptyBytes)
StatErr == File("error", FALSE, EmptyBytes)
Unreadable == File("ok", FALSE, FontA)
FileKinds ==
    { Missing, StatErr, Unreadable,
      File("ok", TRUE, EmptyBytes), File("ok", TRUE, TinyBytes),
      File("ok", TRUE, JunkBytes), File("ok", TRUE, FontA),
      File("ok", TRUE, LimitFont), File("ok", TRUE, HugeFont) }

NoErr == "nil"
ErrNotFound == "font file not found"
ErrAccess == "font file access error"
ErrEmpty == "font file empty"
ErrTooLarge == "font file too large"
ErrRead == "font file read error"
ErrTooSmall == "file too small for a font"
ErrParse == "font parse error"
ErrFace == "font face creation error"
ErrPreloadParse == "preloaded font parse error"

\* Fault: loadFontFromFile without the size checks of lines 265-270 and 280-282.
LoadFromFileMutNoSizeCheck(f) ==
    IF f.stat = "notexist" THEN [err |-> ErrNotFound, data |-> EmptyBytes, read |-> FALSE]
    ELSE IF f.stat = "error" THEN [err |-> ErrAccess, data |-> EmptyBytes, read |-> FALSE]
    ELSE IF ~f.readable THEN [err |-> ErrRead, data |-> EmptyBytes, read |-> TRUE]
    ELSE [err |-> NoErr, data |-> f.data, read |-> TRUE]

\* loadFontFromFile(path) on file f: the bytes or the error, and whether
\* os.ReadFile was called.
loadFontFromFile(f) ==
    IF f.stat = "notexist" THEN [err |-> ErrNotFound, data |-> EmptyBytes, read |-> FALSE]
    ELSE IF f.stat = "error" THEN [err |-> ErrAccess, data |-> EmptyBytes, read |-> FALSE]
    ELSE IF f.data.len = 0 THEN [err |-> ErrEmpty, data |-> EmptyBytes, read |-> FALSE]
    ELSE IF f.data.len > MaxFontFileSize
         THEN [err |-> ErrTooLarge, data |-> EmptyBytes, read |-> FALSE]
    ELSE IF ~f.readable THEN [err |-> ErrRead, data |-> EmptyBytes, read |-> TRUE]
    ELSE IF f.data.len < MinFontFileLen
         THEN [err |-> ErrTooSmall, data |-> EmptyBytes, read |-> TRUE]
    ELSE [err |-> NoErr, data |-> f.data, read |-> TRUE]

(***************************************************************************)
(* Captions.  A string is a sequence of characters; strings.ToUpper maps   *)
(* each lower-case letter to its upper-case letter.                        *)
(***************************************************************************)
UpperOf(c) == CASE c = "h" -> "H" [] c = "i" -> "I" [] OTHER -> c
toUpperSafe(s) == [i \in 1..Len(s) |-> UpperOf(s[i])]
Texts == { <<>>, <<"h", "i">>, <<"H", "i", "!">> }

(***************************************************************************)
(* Layout arithmetic of Generate.                                          *)
(***************************************************************************)
\* Go's int(x) and integer division: truncation toward zero.
TruncDiv(a, b) == IF a >= 0 THEN a \div b ELSE -((-a) \div b)

\* Fault: the scale factor without its upper clamp.
ScaleFactorMutNoUpperClamp(W) == IF 2 * W < BaseWidth THEN BaseWidth \div 2 ELSE W

\* scaleFactor * BaseWidth, lines 108-113.
ScaleFactor(W) ==
    IF 2 * W < BaseWidth THEN BaseWidth \div 2
    ELSE IF W > 2 * BaseWidth THEN 2 * BaseWidth
    ELSE W

\* fontSize in 1/FontUnit points, lines 104-115.
ResolveFontSize(cfg, W) ==
    IF cfg.AutoFontSize
    THEN (BaseSize * FontUnit * ScaleFactor(W)) \div BaseWidth
    ELSE cfg.FontSize

\* int(fontSize * 1.5), int(fontSize * 0.8), int(fontSize * 1.2)
LineHeight(sz) == TruncDiv(sz * 3, 2 * FontUnit)
FirstBaseline(sz) == TruncDiv(sz * 4, 5 * FontUnit)
LineAdvance(sz) == TruncDiv(sz * 6, 5 * FontUnit)

\* Fault: one caption block however many captions there are.
TextHeightMutOnce(top, bottom, sz) ==
    IF top # <<>> \/ bottom # <<>> THEN LineHeight(sz) ELSE 0

\* textHeight, lines 118-124.
TextHeight(top, bottom, sz) ==
    (IF top # <<>> THEN LineHeight(sz) ELSE 0)
    + (IF bottom # <<>> THEN LineHeight(sz) ELSE 0)

\* The bounds of image.NewRGBA(image.Rect(0, 0, resultWidth, resultHeight)),
\* lines 126-130.
CanvasOf(cfg, W, H, top, bottom, sz) ==
    [w |-> W + cfg.Padding * 2,
     h |-> H + cfg.Padding * 2 + TextHeight(top, bottom, sz)]

(***************************************************************************)
(* drawCenteredText: the DrawString calls it makes, in order.              *)
(***************************************************************************)
Pass(src, dx, dy) == [src |-> src, dx |-> dx, dy |-> dy]

\* Fault: the whole row and column of the center skipped.
SkipCenterMutAxis(dx, dy) == dx = 0 \/ dy = 0

\* Whether the loop body at (dx, dy) is skipped, line 364.
SkipCenter(dx, dy) == dx = 0 /\ dy = 0

\* The nested loops of lines 361-370, from (dx, dy) on.
RECURSIVE OutlineLoop(_, _, _)
OutlineLoop(w, dx, dy) ==
    IF dx > w THEN <<>>
    ELSE IF dy > w THEN OutlineLoop(w, dx + 1, -w)
    ELSE (IF SkipCenter(dx, dy) THEN <<>> ELSE <<Pass("outline", dx, dy)>>)
         \o OutlineLoop(w, dx, dy + 1)

\* font.Drawer.MeasureString(text).Ceil(): the advance of the face's glyphs,
\* taken as 3/5 of the point size per character, rounded up.
MeasureString(face, text) == (Len(text) * face.size * 3 + 5 * FontUnit - 1) \div (5 * FontUnit)

\* One call of drawCenteredText on a canvas of width cw: nothing for an empty
\* text, else the origin and the passes.
drawCenteredText(cfg, cw, face, text, y) ==
    IF text = <<>> THEN <<>>
    ELSE << [text |-> text,
             x |-> TruncDiv(cw - MeasureString(face, text), 2),
             y |-> y,
             w |-> cfg.TextOutlineWidth,
             passes |-> (IF cfg.TextOutlineWidth > 0
                         THEN OutlineLoop(cfg.TextOutlineWidth,
                                          -cfg.TextOutlineWidth, -cfg.TextOutlineWidth)
                         ELSE <<>>)
                        \o <<Pass("fill", 0, 0)>>] >>

\* The captions Generate draws, lines 162-174.
DrawCaptions(cfg, H, cw, face, top, bottom, sz) ==
    LET y0 == cfg.Padding + H + FirstBaseline(sz)
        y1 == IF top # <<>> THEN y0 + LineAdvance(sz) ELSE y0
    IN  drawCenteredText(cfg, cw, face, top, y0)
        \o drawCenteredText(cfg, cw, face, bottom, y1)

(***************************************************************************)
(* State.                                                                  *)
(***************************************************************************)
VARIABLES
    config,        \* *Config shared by the Generator and its caller
    fs,            \* the file system: path -> file
    fontCache,     \* Generator.fontCache: key -> parsed font
    rwWriter,      \* Generator.fontCacheMu: the goroutine holding Lock, or None
    rwReaders,     \* Generator.fontCacheMu: the goroutines holding RLock
    pc,            \* each goroutine's position
    call,          \* each goroutine's local variables
    result,        \* what each goroutine's last call returned
    genCalls,      \* history: Generate calls per FontPath (FontData empty) since the last clear
    genReads,      \* history: os.ReadFile calls of loadFont per path since the last clear
    genFails,      \* history: of those calls, the ones that read and got no font
    preloaded,     \* history: paths PreloadFont inserted since the last clear
    cachedAtClear  \* history: paths cached when the cache was last cleared

vars == << config, fs, fontCache, rwWriter, rwReaders, pc, call, result,
           genCalls, genReads, genFails, preloaded, cachedAtClear >>
histVars == << genCalls, genReads, genFails, preloaded, cachedAtClear >>
lockVars == << rwWriter, rwReaders >>

RawEmbeddedKey == "embedded_font_data"
GoBoldKey == "gobold_embedded"

NoTypeface == [typeface |-> NoFont]
NoFace == [font |-> NoTypeface, size |-> 0]
NoCanvas == [w |-> -1, h |-> -1, border |-> 0, draws |-> <<>>]

IdleCall ==
    [op |-> "none", path |-> NoPath, W |-> 0, H |-> 0,
     topText |-> <<>>, bottomText |-> <<>>, fontSize |-> 0,
     out |-> NoCanvas, fontData |-> EmptyBytes, fontBytes |-> EmptyBytes,
     cacheKey |-> "", hit |-> FALSE, font |-> NoTypeface,
     lookups |-> 0, reads |-> 0, nth |-> 0]

NoResult ==
    [op |-> "none", err |-> NoErr, canvas |-> NoCanvas, face |-> NoFace, call |-> IdleCall]

\* DefaultConfig, lines 48-61, with the font source and the layout a caller sets.
ConfigOf(path, data, top, bottom, size, pad, border, outline, upper, auto) ==
    [TopText |-> top, BottomText |-> bottom, FontSize |-> size,
     FontPath |-> path, FontData |-> data, Padding |-> pad, Border |-> border,
     TextOutlineWidth |-> outline, TextUppercase |-> upper, AutoFontSize |-> auto]

\* Fault: the parsed font is not stored.
CachePutMutNoInsert(cache, key, font) == cache

\* The map write g.fontCache[key] = font.
CachePut(cache, key, font) ==
    [k \in DOMAIN cache \cup {key} |-> IF k = key THEN font ELSE cache[k]]
EmptyCache == [k \in {} |-> NoTypeface]

\* Fault: ClearFontCache keeps the entries.
ClearedCacheMutKeep(cache) == cache

\* The map ClearFontCache installs in place of cache, line 315.
ClearedCache(cache) == EmptyCache

\* opentype.NewFace(font, {Size: size, DPI: 72, Hinting: full}); whether the
\* library returns an error instead is left open where it is called.
NewFace(font, size) == [font |-> font, size |-> size]

Bump(f, k) == [f EXCEPT ![k] = @ + 1]

(***************************************************************************)
(* Initial states: NewGenerator(cfg), lines 72-80, on a given file system. *)
(***************************************************************************)
RawInputs == {EmptyBytes, JunkBytes, FontR}
InitCommon ==
    /\ fontCache = EmptyCache
    /\ rwWriter = None
    /\ rwReaders = {}
    /\ pc = [p \in Procs |-> "idle"]
    /\ call = [p \in Procs |-> IdleCall]
    /\ result = [p \in Procs |-> NoResult]
    /\ genCalls = [q \in Paths |-> 0]
    /\ genReads = [q \in Paths |-> 0]
    /\ genFails = [q \in Paths |-> 0]
    /\ preloaded = {}
    /\ cachedAtClear = {}

Init ==
    /\ InitCommon
    /\ \E f \in FileKinds : fs = [q \in Paths |-> IF q = "a.ttf" THEN f ELSE File("ok", TRUE, FontB)]
    /\ \E path \in Paths \cup {NoPath}, data \in RawInputs :
          config = ConfigOf(path, data, <<"h", "i">>, <<>>, BaseSize * FontUnit,
                            DefaultPadding, DefaultBorder, 1, TRUE, TRUE)

(***************************************************************************)
(* Generate, lines 88-177.                                                 *)
(***************************************************************************)
Image(W, H) == [W |-> W, H |-> H]

\* Leaving a call: the goroutine is idle again and its result is visible; c
\* is what its local variables were.
Return(p, op, err, canvas, face, c) ==
    /\ pc' = [pc EXCEPT ![p] = "idle"]
    /\ result' = [result EXCEPT ![p] =
                    [op |-> op, err |-> err, canvas |-> canvas, face |-> face,
                     call |-> c]]
    /\ call' = [call EXCEPT ![p] = IdleCall]

\* Generate returning the error of loadFont, lines 157-159.
GenFail(p, err, c) == Return(p, "Generate", err, NoCanvas, NoFace, c)

\* Generate with its face: the captions are drawn and the canvas returned,
\* lines 160-176.
GenFinish(p, face, c) ==
    Return(p, "Generate", NoErr,
           [c.out EXCEPT !.draws =
               DrawCaptions(config, c.H, c.out.w, face, c.topText, c.bottomText,
                            c.fontSize)],
           face, c)

\* Lines 89-153: the captions, the font size, the canvas with its background,
\* border and image.
GenBegin(p, img) ==
    /\ pc[p] = "idle"
    /\ \A q \in Paths : genCalls[q] < MaxCalls
    /\ LET top == IF config.TextUppercase THEN toUpperSafe(config.TopText)
                  ELSE config.TopText
           bottom == IF config.TextUppercase THEN toUpperSafe(config.BottomText)
                     ELSE config.BottomText
           size == ResolveFontSize(config, img.W)
           dims == CanvasOf(config, img.W, img.H, top, bottom, size)
       IN  call' = [call EXCEPT ![p] =
                      [IdleCall EXCEPT !.op = "Generate", !.W = img.W, !.H = img.H,
                          !.topText = top, !.bottomText = bottom, !.fontSize = size,
                          !.out = [w |-> dims.w, h |-> dims.h,
                                   border |-> IF config.Border > 0 THEN config.Border ELSE 0,
                                   draws |-> <<>>]]]
    /\ pc' = [pc EXCEPT ![p] = "lf_data"]
    /\ result' = [result EXCEPT ![p] = NoResult]
    /\ UNCHANGED << config, fs, fontCache, lockVars, histVars >>

\* Fault: the font path taking precedence over the raw bytes.
UseFontDataMutPathFirst(cfg) == cfg.FontData.len > 0 /\ cfg.FontPath = NoPath

\* loadFont, lines 187-190: the raw bytes of the configuration, if any.
UseFontData(cfg) == cfg.FontData.len > 0
LfData(p) ==
    /\ pc[p] = "lf_data"
    /\ IF UseFontData(config)
       THEN /\ call' = [call EXCEPT ![p].fontData = config.FontData,
                                    ![p].fontBytes = config.FontData,
                                    ![p].cacheKey = RawEmbeddedKey]
            /\ pc' = [pc EXCEPT ![p] = "lf_parse"]
       ELSE /\ call' = [call EXCEPT ![p].fontData = config.FontData]
            /\ pc' = [pc EXCEPT ![p] = "lf_path"]
    /\ UNCHANGED << config, fs, fontCache, lockVars, result, histVars >>

\* loadFont, lines 192-194 and 221-224: the font path, else the embedded
\* bold typeface.
LfPath(p) ==
    /\ pc[p] = "lf_path"
    /\ IF config.FontPath # NoPath
       THEN /\ call' = [call EXCEPT ![p].path = config.FontPath,
                                    ![p].cacheKey = config.FontPath,
                                    ![p].nth = genCalls[config.FontPath] + 1]
            /\ genCalls' = Bump(genCalls, config.FontPath)
            /\ pc' = [pc EXCEPT ![p] = "lf_rlock"]
       ELSE /\ call' = [call EXCEPT ![p].fontBytes = GoBoldTTF,
                                    ![p].cacheKey = GoBoldKey]
            /\ genCalls' = genCalls
            /\ pc' = [pc EXCEPT ![p] = "lf_parse"]
    /\ UNCHANGED << config, fs, fontCache, lockVars, result,
                    genReads, genFails, preloaded, cachedAtClear >>

\* sync.RWMutex: RLock waits for the writer, Lock for the writer and the readers.
CanRLock == rwWriter = None
CanLock == rwWriter = None /\ rwReaders = {}

\* Line 197.
LfRLock(p) ==
    /\ pc[p] = "lf_rlock"
    /\ CanRLock
    /\ rwReaders' = rwReaders \cup {p}
    /\ pc' = [pc EXCEPT ![p] = "lf_lookup"]
    /\ UNCHANGED << config, fs, fontCache, rwWriter, call, result, histVars >>

\* Lines 198-201: the lookup, the unlock and the test of what was found.
LfLookup(p) ==
    /\ pc[p] = "lf_lookup"
    /\ LET key == call[p].cacheKey
           ok == key \in DOMAIN fontCache
       IN  /\ call' = [call EXCEPT ![p].hit = ok,
                                   ![p].font = IF ok THEN fontCache[key] ELSE NoTypeface,
                                   ![p].lookups = @ + 1]
           /\ pc' = [pc EXCEPT ![p] = IF ok THEN "lf_hitface" ELSE "lf_file"]
    /\ rwReaders' = rwReaders \ {p}
    /\ UNCHANGED << config, fs, fontCache, rwWriter, result, histVars >>

\* Lines 203-211: the face of the cached font.
LfHitFace(p) ==
    /\ pc[p] = "lf_hitface"
    /\ \E faceOk \in BOOLEAN :
          IF faceOk
          THEN GenFinish(p, NewFace(call[p].font, call[p].fontSize), call[p])
          ELSE GenFail(p, ErrFace, call[p])
    /\ UNCHANGED << config, fs, fontCache, lockVars, histVars >>

\* Lines 216-219: the bytes of the file at the configured path.
LfFile(p) ==
    /\ pc[p] = "lf_file"
    /\ LET path == config.FontPath
           r == loadFontFromFile(fs[path])
       IN  /\ genReads' = IF r.read THEN Bump(genReads, path) ELSE genReads
           /\ genFails' = IF r.read /\ r.err # NoErr THEN Bump(genFails, path)
                          ELSE genFails
           /\ IF r.err # NoErr
              THEN GenFail(p, r.err,
                           [call[p] EXCEPT !.reads = @ + (IF r.read THEN 1 ELSE 0)])
              ELSE /\ call' = [call EXCEPT ![p].reads = @ + 1,
                                           ![p].fontBytes = r.data]
                   /\ pc' = [pc EXCEPT ![p] = "lf_parse"]
                   /\ result' = result
    /\ UNCHANGED << config, fs, fontCache, lockVars, genCalls, preloaded,
                    cachedAtClear >>

\* Lines 228-238: the parse, and whether the parsed font is to be cached.
ShouldCache(cfg) == cfg.FontPath # NoPath
LfParse(p) ==
    /\ pc[p] = "lf_parse"
    /\ LET r == Parse(call[p].fontBytes)
           fromFile == call[p].reads > 0
       IN  IF ~r.ok
           THEN /\ GenFail(p, ErrParse, call[p])
                /\ genFails' = IF fromFile THEN Bump(genFails, call[p].path)
                               ELSE genFails
           ELSE /\ call' = [call EXCEPT ![p].font = r.font]
                /\ pc' = [pc EXCEPT ![p] = IF ShouldCache(config)
                                           THEN "lf_wlock" ELSE "lf_face"]
                /\ UNCHANGED << result, genFails >>
    /\ UNCHANGED << config, fs, fontCache, lockVars, genCalls, genReads,
                    preloaded, cachedAtClear >>

\* Line 235.
LfWLock(p) ==
    /\ pc[p] = "lf_wlock"
    /\ CanLock
    /\ rwWriter' = p
    /\ pc' = [pc EXCEPT ![p] = "lf_insert"]
    /\ UNCHANGED << config, fs, fontCache, rwReaders, call, result, histVars >>

\* Lines 236-237.
LfInsert(p) ==
    /\ pc[p] = "lf_insert"
    /\ fontCache' = CachePut(fontCache, call[p].cacheKey, call[p].font)
    /\ rwWriter' = None
    /\ pc' = [pc EXCEPT ![p] = "lf_face"]
    /\ UNCHANGED << config, fs, rwReaders, call, result, histVars >>

\* Lines 241-250: the face of the parsed font.
LfFace(p) ==
    /\ pc[p] = "lf_face"
    /\ \E faceOk \in BOOLEAN :
          IF faceOk
          THEN GenFinish(p, NewFace(call[p].font, call[p].fontSize), call[p])
          ELSE GenFail(p, ErrFace, call[p])
    /\ UNCHANGED << config, fs, fontCache, lockVars, histVars >>

Generate(p, images) ==
    \/ \E img \in images : GenBegin(p, img)
    \/ LfData(p)
    \/ LfPath(p)
    \/ LfRLock(p)
    \/ LfLookup(p)
    \/ LfHitFace(p)
    \/ LfFile(p)
    \/ LfParse(p)
    \/ LfWLock(p)
    \/ LfInsert(p)
    \/ LfFace(p)

(***************************************************************************)
(* LoadFontFile, lines 300-310.                                            *)
(***************************************************************************)
\* Lines 301-304.
LffLoad(p, path) ==
    /\ pc[p] = "idle"
    /\ LET r == loadFontFromFile(fs[path])
           c == [IdleCall EXCEPT !.op = "LoadFontFile", !.path = path,
                                 !.fontBytes = r.data,
                                 !.reads = IF r.read THEN 1 ELSE 0]
       IN  IF r.err # NoErr
           THEN Return(p, "LoadFontFile", r.err, NoCanvas, NoFace, c)
           ELSE /\ call' = [call EXCEPT ![p] = c]
                /\ pc' = [pc EXCEPT ![p] = "lff_data"]
                /\ result' = [result EXCEPT ![p] = NoResult]
    /\ UNCHANGED << config, fs, fontCache, lockVars, histVars >>

\* Line 306.
LffData(p) ==
    /\ pc[p] = "lff_data"
    /\ config' = [config EXCEPT !.FontData = call[p].fontBytes]
    /\ pc' = [pc EXCEPT ![p] = "lff_path"]
    /\ UNCHANGED << fs, fontCache, lockVars, call, result, histVars >>

\* Lines 307-309.
LffPath(p) ==
    /\ pc[p] = "lff_path"
    /\ config' = [config EXCEPT !.FontPath = call[p].path]
    /\ Return(p, "LoadFontFile", NoErr, NoCanvas, NoFace, call[p])
    /\ UNCHANGED << fs, fontCache, lockVars, histVars >>

LoadFontFile(p, paths) ==
    \/ \E path \in paths : LffLoad(p, path)
    \/ LffData(p)
    \/ LffPath(p)

(***************************************************************************)
(* PreloadFont, lines 320-336.                                             *)
(***************************************************************************)
\* Lines 321-329.
PfLoad(p, path) ==
    /\ pc[p] = "idle"
    /\ LET r == loadFontFromFile(fs[path])
           parsed == Parse(r.data)
           c == [IdleCall EXCEPT !.op = "PreloadFont", !.path = path,
                                 !.fontBytes = r.data, !.font = parsed.font,
                                 !.reads = IF r.read THEN 1 ELSE 0]
       IN  IF r.err # NoErr
           THEN Return(p, "PreloadFont", r.err, NoCanvas, NoFace, c)
           ELSE IF ~parsed.ok
           THEN Return(p, "PreloadFont", ErrPreloadParse, NoCanvas, NoFace, c)
           ELSE /\ call' = [call EXCEPT ![p] = c]
                /\ pc' = [pc EXCEPT ![p] = "pf_wlock"]
                /\ result' = [result EXCEPT ![p] = NoResult]
    /\ UNCHANGED << config, fs, fontCache, lockVars, histVars >>

\* Fault: PreloadFont going on to its insert without taking the lock.
PfWLockMutNoLock(p) ==
    /\ pc[p] = "pf_wlock"
    /\ pc' = [pc EXCEPT ![p] = "pf_insert"]
    /\ UNCHANGED << config, fs, fontCache, lockVars, call, result, histVars >>

\* Line 331.
PfWLock(p) ==
    /\ pc[p] = "pf_wlock"
    /\ CanLock
    /\ rwWriter' = p
    /\ pc' = [pc EXCEPT ![p] = "pf_insert"]
    /\ UNCHANGED << config, fs, fontCache, rwReaders, call, result, histVars >>

\* Lines 332-335.
PfInsert(p) ==
    /\ pc[p] = "pf_insert"
    /\ fontCache' = CachePut(fontCache, call[p].path, call[p].font)
    /\ rwWriter' = None
    /\ preloaded' = preloaded \cup {call[p].path}
    /\ Return(p, "PreloadFont", NoErr, NoCanvas, NoFace, call[p])
    /\ UNCHANGED << config, fs, rwReaders, genCalls, genReads, genFails,
                    cachedAtClear >>

PreloadFont(p, paths) ==
    \/ \E path \in paths : PfLoad(p, path)
    \/ PfWLock(p)
    \/ PfInsert(p)

(***************************************************************************)
(* ClearFontCache, lines 313-317.                                          *)
(***************************************************************************)
\* Line 314.
CfLock(p) ==
    /\ pc[p] = "idle"
    /\ CanLock
    /\ rwWriter' = p
    /\ call' = [call EXCEPT ![p] = [IdleCall EXCEPT !.op = "ClearFontCache"]]
    /\ pc' = [pc EXCEPT ![p] = "cf_replace"]
    /\ result' = [result EXCEPT ![p] = NoResult]
    /\ UNCHANGED << config, fs, fontCache, rwReaders, histVars >>

\* Lines 315-316.
CfReplace(p) ==
    /\ pc[p] = "cf_replace"
    /\ fontCache' = ClearedCache(fontCache)
    /\ rwWriter' = None
    /\ genCalls' = [q \in Paths |-> 0]
    /\ genReads' = [q \in Paths |-> 0]
    /\ genFails' = [q \in Paths |-> 0]
    /\ preloaded' = {}
    /\ cachedAtClear' = DOMAIN fontCache \cap Paths
    /\ Return(p, "ClearFontCache", NoErr, NoCanvas, NoFace, call[p])
    /\ UNCHANGED << config, fs, rwReaders >>

ClearFontCache(p) ==
    \/ CfLock(p)
    \/ CfReplace(p)

(***************************************************************************)
(* The caller writing the font source through Config(), lines 83-85,       *)
(* between calls.                                                          *)
(***************************************************************************)
SetFontSource(path, data) ==
    /\ \A p \in Procs : pc[p] = "idle"
    /\ config' = [config EXCEPT !.FontPath = path, !.FontData = data]
    /\ config' # config
    /\ result' = [p \in Procs |-> NoResult]
    /\ UNCHANGED << fs, fontCache, lockVars, pc, call, histVars >>

Configure == \E path \in Paths \cup {NoPath}, data \in RawInputs : SetFontSource(path, data)

(***************************************************************************)
(* Specifications.                                                         *)
(***************************************************************************)
Images == {Image(800, 600)}
Step(p, paths) ==
    \/ Generate(p, Images)
    \/ LoadFontFile(p, paths)
    \/ PreloadFont(p, paths)
    \/ ClearFontCache(p)

\* One call at a time.
Next == (\E p \in SeqProcs : Step(p, Paths)) \/ Configure
Spec == Init /\ [][Next]_vars

\* Several goroutines, their steps interleaved.
ConcInit ==
    /\ InitCommon
    /\ \E f \in {File("ok", TRUE, FontA), File("ok", TRUE, JunkBytes)} :
          fs = [q \in Paths |-> IF q = "a.ttf" THEN f ELSE File("ok", TRUE, FontB)]
    /\ \E path \in {NoPath, "a.ttf"}, data \in {EmptyBytes, FontR} :
          config = ConfigOf(path, data, <<"h", "i">>, <<>>, BaseSize * FontUnit,
                            DefaultPadding, DefaultBorder, 1, TRUE, TRUE)
ConcPaths == {"a.ttf"}
ConcNext == \E p \in Procs : Step(p, ConcPaths)
SpecConc == ConcInit /\ [][ConcNext]_vars

\* Generate alone, over the layout inputs.
LayoutWidths == {0, 399, 400, 401, 800, 1600, 1601, 3200}
LayoutImages == {Image(W, 600) : W \in LayoutWidths}
LayoutInit ==
    /\ InitCommon
    /\ fs = [q \in Paths |-> IF q = "a.ttf" THEN File("ok", TRUE, FontA)
                              ELSE File("ok", TRUE, FontB)]
    /\ \E path \in {NoPath, "a.ttf"}, top \in Texts, bottom \in {<<>>, <<"h", "i">>},
          size \in {525, BaseSize * FontUnit}, pad \in {0, DefaultPadding},
          border \in {0, DefaultBorder}, outline \in 0..MaxOutlineWidth,
          upper \in BOOLEAN, auto \in BOOLEAN :
          config = ConfigOf(path, EmptyBytes, top, bottom, size, pad, border,
                            outline, upper, auto)
LayoutNext == \E p \in SeqProcs : Generate(p, LayoutImages)
SpecLayout == LayoutInit /\ [][LayoutNext]_vars

(***************************************************************************)
(* Properties.                                                             *)
(***************************************************************************)
\* A Generate call of goroutine p has just returned.
GenDone(p) == pc[p] = "idle" /\ result[p].op = "Generate"

\* The file at path q holds a font that loadFontFromFile and Parse accept.
ValidFontFile(q) ==
    /\ fs[q].stat = "ok" /\ fs[q].readable
    /\ fs[q].data.face # NoFont
    /\ 0 < fs[q].data.len /\ fs[q].data.len <= MaxFontFileSize

\* C1, as claimed: between two ClearFontCache calls the Generate calls with
\* one FontPath (FontData empty) read the font file at most once in total,
\* whether or not they return an error.
C1_ReadAtMostOnce == \A q \in Paths : genReads[q] <= 1

\* C1, amended: every such Generate call reads the file at most once, and
\* the reads in total are at most one more than the calls that read the file
\* and got no font from it (the read failed, fewer than 4 bytes, or bytes
\* that do not parse); a file that holds a font is read at most once.
C1_ReadOncePerParsedFont ==
    /\ \A q \in Paths :
          /\ genReads[q] <= genCalls[q]
          /\ genReads[q] <= 1 + genFails[q]
          /\ ValidFontFile(q) => genReads[q] <= 1
    /\ \A p \in Procs : GenDone(p) => result[p].call.reads <= 1

\* Several Generate calls with one font path since the last clear, and a
\* single read of its file.
C1_Witness ==
    \E q \in Paths : genCalls[q] >= 3 /\ genReads[q] = 1 /\ genFails[q] = 0

\* C2: every entry of the font cache is keyed by a font file path and holds
\* the font parsed from that file; fonts from raw bytes or from the embedded
\* typeface are never inserted.
C2_CacheKeyedByPath ==
    \A k \in DOMAIN fontCache :
        /\ k \in Paths
        /\ fontCache[k] = Parse(fs[k].data).font

\* C3, as claimed: the first Generate call with a font path (FontData empty,
\* the file a valid font) after a ClearFontCache that emptied a cache holding
\* that path misses, reads the file exactly once and inserts it again; every
\* later such call before the next clear reads nothing.
C3_NextGenerateMisses ==
    \A p \in Procs :
        LET c == result[p].call IN
        (GenDone(p) /\ c.path # NoPath /\ c.path \in cachedAtClear
            /\ ValidFontFile(c.path))
        => /\ c.nth = 1 => (~c.hit /\ c.reads = 1 /\ c.path \in DOMAIN fontCache)
           /\ c.nth > 1 => c.reads = 0

\* C3, amended: the same, for a first Generate call that no PreloadFont of
\* the path precedes since the clear (after such a PreloadFont the call is a
\* hit and reads nothing).
C3_NextGenerateMissesUnlessPreloaded ==
    \A p \in Procs :
        LET c == result[p].call IN
        (GenDone(p) /\ c.path # NoPath /\ c.path \in cachedAtClear
            /\ ValidFontFile(c.path))
        => /\ (c.nth = 1 /\ c.path \notin preloaded)
              => (~c.hit /\ c.reads = 1 /\ c.path \in DOMAIN fontCache
                  /\ fontCache[c.path] = Parse(fs[c.path].data).font)
           /\ (c.nth = 1 /\ c.path \in preloaded) => (c.hit /\ c.reads = 0)
           /\ c.nth > 1 => (c.hit /\ c.reads = 0)

\* The first Generate call after the clear of a cache that held its path.
C3_Witness ==
    \E p \in Procs :
        LET c == result[p].call IN
        /\ GenDone(p) /\ c.path # NoPath /\ c.path \in cachedAtClear
        /\ c.nth = 1 /\ c.path \notin preloaded /\ c.reads = 1
        /\ result[p].err = NoErr

\* C4: Generate builds its face from exactly one source: the raw bytes when
\* FontData is non-empty (no cache lookup, no file read, whatever FontPath
\* is), else the cache entry of FontPath on a hit and the file's bytes on a
\* miss, else the embedded bold typeface.
C4_FontSourcePrecedence ==
    \A p \in Procs :
        LET c == result[p].call
            face == result[p].face
        IN  GenDone(p) =>
            IF config.FontData.len > 0
            THEN /\ c.lookups = 0 /\ c.reads = 0
                 /\ result[p].err = NoErr => face.font = Parse(config.FontData).font
            ELSE IF config.FontPath # NoPath
            THEN /\ c.lookups = 1
                 /\ c.reads = (IF ~c.hit /\ loadFontFromFile(fs[config.FontPath]).read
                               THEN 1 ELSE 0)
                 /\ result[p].err = NoErr =>
                       /\ config.FontPath \in DOMAIN fontCache
                       /\ face.font = fontCache[config.FontPath]
                       /\ ~c.hit => face.font = Parse(fs[config.FontPath].data).font
            ELSE /\ c.lookups = 0 /\ c.reads = 0
                 /\ result[p].err = NoErr => face.font = Parse(GoBoldTTF).font

\* A successful Generate with both FontData and FontPath set.
C4_Witness ==
    \E p \in Procs :
        /\ GenDone(p) /\ result[p].err = NoErr
        /\ config.FontData.len > 0 /\ config.FontPath # NoPath
        /\ result[p].face.font = Parse(config.FontData).font

\* What font resolution must fail with for file f, by the kinds of failure:
\* missing, inaccessible, zero bytes, over 10 MiB, unreadable, under 4 bytes,
\* bytes that are no font.
FileFailure(f) ==
    CASE f.stat = "notexist" -> ErrNotFound
      [] f.stat = "error" -> ErrAccess
      [] f.stat = "ok" /\ f.data.len = 0 -> ErrEmpty
      [] f.stat = "ok" /\ f.data.len > 10485760 -> ErrTooLarge
      [] f.stat = "ok" /\ f.data.len \in 1..10485760 /\ ~f.readable -> ErrRead
      [] f.stat = "ok" /\ f.data.len \in 1..3 /\ f.readable -> ErrTooSmall
      [] f.stat = "ok" /\ f.data.len \in 4..10485760 /\ f.readable
            /\ f.data.face = NoFont -> ErrParse
      [] OTHER -> NoErr

\* C5: a Generate call returns a canvas and no error, or no canvas and an
\* error.  When font resolution fails (file missing, inaccessible, empty,
\* too large, too small, bytes that do not parse, face creation failure) it
\* returns no canvas and that error, and never renders with the embedded
\* default font instead.
C5_AllOrNothing ==
    \A p \in Procs :
        LET r == result[p]
            c == result[p].call
        IN  GenDone(p) =>
            /\ (r.canvas # NoCanvas) <=> (r.err = NoErr)
            /\ (r.face # NoFace) <=> (r.err = NoErr)
            /\ (config.FontData.len > 0 /\ config.FontData.face = NoFont)
                  => r.err = ErrParse
            /\ (config.FontData.len = 0 /\ config.FontPath # NoPath /\ ~c.hit
                  /\ FileFailure(fs[config.FontPath]) # NoErr)
                  => r.err = FileFailure(fs[config.FontPath])
            /\ r.err \notin {NoErr, ErrFace} =>
                  /\ config.FontData.len > 0 \/ config.FontPath # NoPath
                  /\ config.FontData.len > 0 => r.err = ErrParse
            /\ (r.err = NoErr /\ (config.FontData.len > 0 \/ config.FontPath # NoPath))
                  => r.face.font # Parse(GoBoldTTF).font

\* Generate on a zero-byte font file: the error, and no canvas.
C5_Witness ==
    \E p \in Procs :
        /\ GenDone(p) /\ result[p].err = ErrEmpty /\ result[p].canvas = NoCanvas
        /\ config.FontPath # NoPath /\ fs[config.FontPath].data.len = 0

\* The captions of the configuration that are not empty once transformed.
Captions ==
    LET up(t) == IF config.TextUppercase THEN toUpperSafe(t) ELSE t
    IN  (IF up(config.TopText) # <<>> THEN 1 ELSE 0)
        + (IF up(config.BottomText) # <<>> THEN 1 ELSE 0)

\* C6: a successful Generate on a W x H image returns a canvas W + 2P wide
\* and H + 2P + k * floor(1.5 f) high, for padding P, font size f and k
\* non-empty captions; with no caption it is (W + 2P, H + 2P).  The border
\* thickness does not enter.
C6_CanvasSize ==
    \A p \in Procs :
        LET r == result[p]
            c == result[p].call
        IN  (GenDone(p) /\ r.err = NoErr) =>
            /\ r.canvas.w = c.W + 2 * config.Padding
            /\ r.canvas.h = c.H + 2 * config.Padding
                            + Captions * ((3 * c.fontSize) \div (2 * FontUnit))
            /\ Captions = 0 => r.canvas.h = c.H + 2 * config.Padding

\* A bordered canvas with both captions.
C6_Witness ==
    \E p \in Procs :
        /\ GenDone(p) /\ result[p].err = NoErr /\ Captions = 2
        /\ config.Border > 0 /\ config.Padding > 0
        /\ result[p].canvas.h > result[p].call.H + 2 * config.Padding

Min(a, b) == IF a <= b THEN a ELSE b
Max(a, b) == IF a >= b THEN a ELSE b
\* 48 * clamp(W / 800, 0.5, 2.0), in 1/FontUnit points.
ClampedSize(W) ==
    Max(24 * FontUnit, Min(96 * FontUnit, (48 * FontUnit * W) \div 800))

\* C7: with AutoFontSize the font size is 48 * clamp(W / 800, 0.5, 2.0),
\* whatever FontSize and the captions are: non-decreasing in W, within
\* [24, 96], 24 at W = 400, 48 at W = 800, 96 at W = 3200.  Without it the
\* configured FontSize is used unchanged.
C7_AutoFontSize ==
    /\ \A p \in Procs :
          LET c == IF pc[p] = "idle" THEN result[p].call ELSE call[p] IN
          c.op = "Generate" =>
          /\ config.AutoFontSize =>
                /\ c.fontSize = ClampedSize(c.W)
                /\ 24 * FontUnit <= c.fontSize /\ c.fontSize <= 96 * FontUnit
                /\ c.W = 400 => c.fontSize = 24 * FontUnit
                /\ c.W = 800 => c.fontSize = 48 * FontUnit
                /\ c.W = 3200 => c.fontSize = 96 * FontUnit
          /\ ~config.AutoFontSize => c.fontSize = config.FontSize
          /\ (GenDone(p) /\ result[p].err = NoErr) => result[p].face.size = c.fontSize
    /\ config.AutoFontSize =>
          \A w1, w2 \in LayoutWidths :
              w1 <= w2 => ResolveFontSize(config, w1) <= ResolveFontSize(config, w2)

\* An image 3200 wide, drawn at 96 points with a configured size of 10.5.
C7_Witness ==
    \E p \in Procs :
        /\ GenDone(p) /\ result[p].err = NoErr /\ config.AutoFontSize
        /\ result[p].call.W = 3200 /\ result[p].face.size = 96 * FontUnit
        /\ config.FontSize = 525

\* Goroutine p is at an access of Config.FontData or Config.FontPath.
WritesConfig(p) == pc[p] \in {"lff_data", "lff_path"}
AtFontData(p) == pc[p] \in {"lf_data", "lff_data"}
AtFontPath(p) == pc[p] \in {"lf_path", "lf_file", "lf_parse", "lff_path"}

\* C8: the font cache is the only state one operation writes while another
\* reads or writes it: no operation is about to write a configuration field
\* that another running operation is about to read or write.
C8_OnlyCacheShared ==
    \A p, q \in Procs :
        (p # q /\ WritesConfig(p)) =>
            /\ pc[p] = "lff_data" => ~AtFontData(q)
            /\ pc[p] = "lff_path" => ~AtFontPath(q)

ReadsCache(p) == pc[p] = "lf_lookup"
WritesCache(p) == pc[p] \in {"lf_insert", "pf_insert", "cf_replace"}

\* C9: every read of the cache map happens under the read lock and every
\* write under the write lock, so no write of the cache overlaps another
\* read or write of it.
C9_CacheUnderLock ==
    /\ \A p \in Procs :
          /\ ReadsCache(p) => p \in rwReaders
          /\ WritesCache(p) => rwWriter = p
    /\ rwWriter # None => rwReaders = {}
    /\ \A p, q \in Procs :
          (p # q /\ WritesCache(p)) => ~(ReadsCache(q) \/ WritesCache(q))

\* Two goroutines hold the read lock at once.
C9_Witness ==
    /\ Cardinality(rwReaders) >= 2
    /\ \A p \in rwReaders : ReadsCache(p)

\* C10: for each caption drawn with outline width w >= 0, drawCenteredText
\* makes (2w+1)^2 - 1 passes in the outline color, one at each offset of
\* [-w, w] x [-w, w] but (0, 0), and then one pass in the fill color at
\* (0, 0), which is the last; with w = 0 it is the only one.
C10_OutlinePasses ==
    \A p \in Procs :
        (GenDone(p) /\ result[p].err = NoErr /\ config.TextOutlineWidth >= 0) =>
        LET draws == result[p].canvas.draws
            w == config.TextOutlineWidth
        IN  /\ Len(draws) = Captions
            /\ \A i \in 1..Len(draws) :
                  LET ps == draws[i].passes
                      n == Len(ps)
                  IN  /\ n = (2 * w + 1) * (2 * w + 1)
                      /\ ps[n] = Pass("fill", 0, 0)
                      /\ \A j \in 1..(n - 1) : ps[j].src = "outline"
                      /\ \A dx, dy \in (-w)..w :
                            (dx # 0 \/ dy # 0) =>
                            Cardinality({j \in 1..(n - 1) :
                                           ps[j] = Pass("outline", dx, dy)}) = 1
                      /\ w = 0 => ps = << Pass("fill", 0, 0) >>

\* Two captions drawn with an outline two pixels wide.
C10_Witness ==
    \E p \in Procs :
        /\ GenDone(p) /\ result[p].err = NoErr /\ config.TextOutlineWidth = 2
        /\ Len(result[p].canvas.draws) = 2
        /\ Len(result[p].canvas.draws[1].passes) = 25

====
